---- MODULE Spec2Model ----
(***************************************************************************)
(* Model of the k8s_events module                                          *)
(* (lib/ansible/modules/clustering/k8s/k8_service_mod.py).                 *)
(*                                                                         *)
(* One invocation of the module is one reconciliation of an Event record  *)
(* against the cluster's resource store.  KubernetesEvent.execute_module   *)
(* looks the stored Event up three times, derives count, involvedObject    *)
(* identity and the timestamps, assembles the Event body and hands it to   *)
(* KubernetesRawModule.perform_action, which looks the record up once more *)
(* and creates, patches, replaces or deletes it.  Every call of the        *)
(* resource client is one step of the invocation.                          *)
(***************************************************************************)
EXTENDS Integers, Sequences, FiniteSets, TLC

VARIABLES
    store,      \* the cluster's Event store: EventKey -> stored record (domain = existing keys)
    clock,      \* wall clock, in ticks (datetime.datetime.now())
    pc,         \* position of each invocation in execute_module
    task,       \* the caller's task arguments of each invocation
    rejects,    \* merge strategies the resource client rejects during the invocation
    local,      \* local variables of execute_module / perform_action
    calls,      \* write calls issued to the resource client by the invocation
    outcome,    \* what the invocation reported (exit_json / fail_json)
    begun       \* the store as it was when the invocation started

vars == <<store, clock, pc, task, rejects, local, calls, outcome, begun>>

----------------------------------------------------------------------------
(* Bounds of the model *)

MaxClock == 4          \* the clock stops after this many ticks
MaxCount == 3          \* no reconciliation starts once a stored count reached this
TicksPerSecond == 2    \* clock ticks in one second (resolution of RFC 3339 text)

----------------------------------------------------------------------------
(* Values *)

None == "None"                       \* Python's None

Names == {"test-evt"}
Namespaces == {"default", "kube-system"}
Reasons == {"Scheduled", "Failed"}
States == {"present", "absent"}
Strategies == {"json", "merge", "strategic-merge"}

Keys == Names \X Namespaces

SeqProcs == {1}                      \* invocations run one after the other

\* merge_type when the caller gives it: an ordered list of strategies
MergeTypeInputs == { <<"json">>, <<"merge", "strategic-merge">> }

\* behaviours of the resource client: the strategies it answers with MergeRejected
RejectInputs == { {}, {"strategic-merge"}, {"merge"}, Strategies }

\* the involvedObject the caller describes
InvolvedObjectInput ==
    [apiVersion |-> "v1", kind |-> "Pod", name |-> "web", namespace |-> "prod"]

\* the same involvedObject with the optional uid and resourceVersion given
InvolvedObjectWithIdentity ==
    [apiVersion |-> "v1", kind |-> "Pod", name |-> "web", namespace |-> "prod",
     uid |-> "uid-fresh", resourceVersion |-> "43"]

\* errors of a lookup other than the missing record
LookupErrors == {"Timeout", "AuthFailure"}

\* kubernetes.config.dateutil.format_rfc3339: a time as text with whole seconds
format_rfc3339(t) == t \div TicksPerSecond

----------------------------------------------------------------------------
(* Argument specification *)

\* variant of the argument spec that does not declare merge_type
ArgSpecKeysWithoutMergeType ==
    {"state", "name", "namespace", "message", "reason",
     "reportingComponent", "type", "source", "involvedObject"}

\* the keys of EVENT_ARG_SPEC; argspec adds only the authentication options
ArgSpecKeys ==
    {"state", "name", "namespace", "merge_type", "message", "reason",
     "reportingComponent", "type", "source", "involvedObject"}

\* the required arguments of a task
CoreTasks ==
    [state : States, name : Names, namespace : Namespaces,
     message : {"m1"}, reason : Reasons,
     reportingComponent : {"metering"}, type : {"Normal"},
     source : {"Metering Operator"},
     involvedObject : {InvolvedObjectInput, InvolvedObjectWithIdentity}]

\* the optional arguments a task may add: merge_type, and the documented force
OptionalArgs ==
    { [merge_type |-> m] : m \in MergeTypeInputs }
      \cup { [force |-> b] : b \in BOOLEAN }
      \cup { [merge_type |-> m, force |-> b] : m \in MergeTypeInputs, b \in BOOLEAN }

Tasks == CoreTasks \cup { c @@ o : c \in CoreTasks, o \in OptionalArgs }

\* what the caller wrote for an argument, default when the task omits it
Arg(t, key, default) == IF key \in DOMAIN t THEN t[key] ELSE default

\* no task: the invocation has not started
NoTask == CHOOSE t \in CoreTasks : TRUE

\* the arguments of a task the module's argument spec does not declare
Unsupported(t) == (DOMAIN t) \ ArgSpecKeys

\* self.params.get(key, default)
Param(t, key, default) ==
    IF key \in (DOMAIN t) \cap ArgSpecKeys THEN t[key] ELSE default

----------------------------------------------------------------------------
(* The resource store *)

\* records that exist before the module ever ran (written by other reporters)
InitialRecord(k) ==
    { [name |-> k[1], namespace |-> k[2], reason |-> r, count |-> c,
       firstTimestamp |-> 0, lastTimestamp |-> 1,
       message |-> "m0", reportingComponent |-> "kubelet", type |-> "Normal",
       source |-> "kubelet",
       involvedObject |-> [apiVersion |-> "v1", kind |-> "Pod", namespace |-> "prod",
                           name |-> "web", resourceVersion |-> "42", uid |-> "uid-a"]]
      : r \in Reasons, c \in 1..2 }

InitialStores ==
    UNION { { f \in [ks -> UNION { InitialRecord(k) : k \in ks }] :
                \A k \in ks : f[k] \in InitialRecord(k) }
            : ks \in SUBSET Keys }

\* resource.get(name, namespace): <<record>> when found, <<>> on NotFoundError
Get(s, k) == IF k \in DOMAIN s THEN <<s[k]>> ELSE <<>>

\* the store after create / patch / replace of body under key k
Put(s, k, body) == [x \in (DOMAIN s) \cup {k} |-> IF x = k THEN body ELSE s[x]]

\* the store after delete of key k
Remove(s, k) == [x \in (DOMAIN s) \ {k} |-> s[x]]

----------------------------------------------------------------------------
(* execute_module *)

InitLocal ==
    [priorCount |-> 1, firstTimestamp |-> 0, lastTimestamp |-> 0,
     lastTimestampBound |-> FALSE, firstTimestampBound |-> FALSE,
     involvedObject_uid |-> "1", involvedObject_resourceVersion |-> "1",
     now |-> 0, prior |-> <<>>, total2 |-> <<>>, total3 |-> <<>>,
     attempts |-> 0, lookupError |-> None, event |-> <<>>, existing |-> <<>>]

NoOutcome == [status |-> "none", error |-> "", result |-> <<>>]

\* line 358: the result of perform_action is reported as success
exit_json(result) == [status |-> "success", error |-> "", result |-> result]

\* variant of main that swallows the exception and exits normally
main_swallowing(exception) == [status |-> "success", error |-> "", result |-> <<>>]

\* lines 365-368: an exception out of execute_module is reported with fail_json
main(exception) == [status |-> "failed", error |-> exception, result |-> <<>>]

\* the key the three lookups of execute_module use: def_meta name and namespace
LookupKey(t) == <<Param(t, "name", None), Param(t, "namespace", None)>>

\* variant of the derivation with the increment of line 286 replaced by the
\* reset of line 285
DeriveCountReset(found, reason) == 1

\* lines 266-289: the count derived from the first lookup
DeriveCount(found, reason) ==
    IF found = <<>> THEN 1
    ELSE IF found[1].reason # reason THEN 1
    ELSE found[1].count + 1

\* module construction and argument validation, then execute_module up to the
\* first lookup, for a task of tasks and a client behaviour of behaviours
BeginWith(p, tasks, behaviours) ==
    /\ pc[p] = "idle"
    /\ \A k \in DOMAIN store : store[k].count < MaxCount
    /\ \E t \in tasks, r \in behaviours :
         /\ task' = [task EXCEPT ![p] = t]
         /\ rejects' = [rejects EXCEPT ![p] = r]
         /\ IF Unsupported(t) # {}
              THEN /\ pc' = [pc EXCEPT ![p] = "done"]
                   /\ outcome' = [outcome EXCEPT ![p] =
                          [status |-> "failed", error |-> "UnsupportedParameters",
                           result |-> <<>>]]
              ELSE /\ pc' = [pc EXCEPT ![p] = "get1"]
                   /\ outcome' = [outcome EXCEPT ![p] = NoOutcome]
    /\ local' = [local EXCEPT ![p] = InitLocal]
    /\ calls' = [calls EXCEPT ![p] = <<>>]
    /\ begun' = [begun EXCEPT ![p] = store]
    /\ UNCHANGED <<store, clock>>

Begin(p) == BeginWith(p, Tasks, RejectInputs)

\* lines 266-289: first lookup; count and (on a changed reason) firstTimestamp
Get1(p) ==
    /\ pc[p] = "get1"
    /\ LET priorEvent == Get(store, LookupKey(task[p]))
           reason == Param(task[p], "reason", None)
           changed == priorEvent # <<>> /\ priorEvent[1].reason # reason
       IN local' = [local EXCEPT
              ![p].prior = priorEvent,
              ![p].attempts = @ + 1,
              ![p].priorCount = DeriveCount(priorEvent, reason),
              ![p].now = IF changed THEN clock ELSE @,
              ![p].firstTimestamp = IF changed THEN format_rfc3339(clock) ELSE @,
              ![p].firstTimestampBound = IF changed THEN TRUE ELSE @]
    /\ pc' = [pc EXCEPT ![p] = "get2"]
    /\ UNCHANGED <<store, clock, task, rejects, calls, outcome, begun>>

\* lines 291-305: second lookup; involvedObject uid and resourceVersion
Get2(p) ==
    /\ pc[p] = "get2"
    /\ LET totalEvent == Get(store, LookupKey(task[p]))
       IN local' = [local EXCEPT
              ![p].total2 = totalEvent,
              ![p].involvedObject_resourceVersion =
                  IF totalEvent # <<>> THEN totalEvent[1].involvedObject.resourceVersion
                  ELSE "1",
              ![p].involvedObject_uid =
                  IF totalEvent # <<>> THEN totalEvent[1].involvedObject.uid ELSE "1"]
    /\ pc' = [pc EXCEPT ![p] = "get3"]
    /\ UNCHANGED <<store, clock, task, rejects, calls, outcome, begun>>

\* lines 309-323: the time of the reconciliation, third lookup; the timestamps.
\* get raises NotFoundError for a missing record and never returns None, so the
\* else-branch of lines 319-321 does not run and lastTimestamp stays unassigned.
Get3(p) ==
    /\ pc[p] = "get3"
    /\ LET totalEvent == Get(store, LookupKey(task[p]))
       IN local' = [local EXCEPT
              ![p].total3 = totalEvent,
              ![p].now = clock,
              ![p].firstTimestampBound = TRUE,
              ![p].firstTimestamp =
                  IF totalEvent # <<>> THEN totalEvent[1].firstTimestamp
                  ELSE format_rfc3339(clock),
              ![p].lastTimestampBound = IF totalEvent # <<>> THEN TRUE ELSE @,
              ![p].lastTimestamp =
                  IF totalEvent # <<>> THEN totalEvent[1].firstTimestamp ELSE @]
    /\ pc' = [pc EXCEPT ![p] = "build"]
    /\ UNCHANGED <<store, clock, task, rejects, calls, outcome, begun>>

\* variant of the except clauses that catches every exception
CaughtAny(exception) == TRUE

\* lines 288, 304, 322: the except clauses of the lookups catch NotFoundError only
Caught(exception) == exception = "NotFoundError"

\* lines 267-323 and main: a lookup raises an error other than NotFoundError.
\* get is the first statement of each try block, so nothing is assigned; a
\* caught exception passes on to the next block, any other reaches main.
GetRaises(p) ==
    /\ pc[p] \in {"get1", "get2", "get3"}
    /\ \E e \in LookupErrors :
         /\ local' = [local EXCEPT
                ![p].lookupError = e,
                ![p].attempts = IF pc[p] = "get1" THEN @ + 1 ELSE @,
                ![p].now = IF pc[p] = "get3" /\ Caught(e) THEN clock ELSE @,
                ![p].firstTimestamp =
                    IF pc[p] = "get3" /\ Caught(e) THEN format_rfc3339(clock) ELSE @,
                ![p].firstTimestampBound =
                    IF pc[p] = "get3" /\ Caught(e) THEN TRUE ELSE @]
         /\ IF Caught(e)
              THEN /\ pc' = [pc EXCEPT ![p] =
                        CASE pc[p] = "get1" -> "get2"
                          [] pc[p] = "get2" -> "get3"
                          [] pc[p] = "get3" -> "build"]
                   /\ UNCHANGED outcome
              ELSE /\ pc' = [pc EXCEPT ![p] = "done"]
                   /\ outcome' = [outcome EXCEPT ![p] = main(e)]
    /\ UNCHANGED <<store, clock, task, rejects, calls, begun>>

\* lines 326-352: the Event body handed to perform_action
EventBody(t, l) ==
    [name |-> Param(t, "name", None),
     namespace |-> "default",
     reason |-> Param(t, "reason", None),
     count |-> l.priorCount,
     firstTimestamp |-> l.firstTimestamp,
     lastTimestamp |-> l.lastTimestamp,
     message |-> Param(t, "message", None),
     reportingComponent |-> Param(t, "reportingComponent", None),
     type |-> Param(t, "type", None),
     source |-> Param(t, "source", None),
     involvedObject |->
        [apiVersion |-> Param(t, "apiVersion", None),
         kind |-> Param(t, "kind", None),
         namespace |-> Param(t, "namespace", None),
         name |-> Param(t, "name", None),
         resourceVersion |-> l.involvedObject_resourceVersion,
         uid |-> l.involvedObject_uid]]

\* lines 326-352 and main's except clause: reading the unassigned local
\* lastTimestamp raises UnboundLocalError, which main reports with fail_json
Build(p) ==
    /\ pc[p] = "build"
    /\ IF local[p].lastTimestampBound
         THEN /\ local' = [local EXCEPT ![p].event = <<EventBody(task[p], local[p])>>]
              /\ pc' = [pc EXCEPT ![p] = "existing"]
              /\ UNCHANGED outcome
         ELSE /\ outcome' = [outcome EXCEPT ![p] = main("UnboundLocalError")]
              /\ pc' = [pc EXCEPT ![p] = "done"]
              /\ UNCHANGED local
    /\ UNCHANGED <<store, clock, task, rejects, calls, begun>>

----------------------------------------------------------------------------
(* perform_action: the apply step of the reconciliation                     *)

\* the key perform_action works on: the body's metadata name and namespace
WriteKey(body) == <<body.name, body.namespace>>

\* the merge strategies to try, in order
MergeTypes(t) ==
    IF Param(t, "merge_type", <<>>) = <<>> THEN <<"strategic-merge", "merge">>
    ELSE Param(t, "merge_type", <<>>)

\* index of the first strategy the client accepts, 0 when it rejects them all
FirstAccepted(strategies, rejected) ==
    IF \E i \in 1..Len(strategies) : strategies[i] \notin rejected
      THEN CHOOSE i \in 1..Len(strategies) :
             /\ strategies[i] \notin rejected
             /\ \A j \in 1..(i - 1) : strategies[j] \in rejected
      ELSE 0

\* the patch calls of the negotiator: one per strategy, up to the first accepted
PatchCalls(strategies, rejected, k) ==
    LET n == FirstAccepted(strategies, rejected)
        last == IF n = 0 THEN Len(strategies) ELSE n
    IN [i \in 1..last |->
          [op |-> "patch", merge_type |-> strategies[i], key |-> k, accepted |-> (i = n)]]

Call(op, k) == [op |-> op, merge_type |-> None, key |-> k, accepted |-> TRUE]

\* line 357, perform_action: lookup of the existing object
Existing(p) ==
    /\ pc[p] = "existing"
    /\ local' = [local EXCEPT ![p].existing = Get(store, WriteKey(local[p].event[1]))]
    /\ pc' = [pc EXCEPT ![p] = "apply"]
    /\ UNCHANGED <<store, clock, task, rejects, calls, outcome, begun>>

\* perform_action: its lookup fails with an error other than NotFound, fatal
ExistingRaises(p) ==
    /\ pc[p] = "existing"
    /\ \E e \in LookupErrors :
         /\ local' = [local EXCEPT ![p].lookupError = e]
         /\ outcome' = [outcome EXCEPT ![p] = main(e)]
    /\ pc' = [pc EXCEPT ![p] = "done"]
    /\ UNCHANGED <<store, clock, task, rejects, calls, begun>>

\* lines 342-345: the write is conditioned on the version read at the lookup
\* only when the body's metadata names a resourceVersion; the body names none
Conditioned(body) == "resourceVersion" \in DOMAIN body

\* a call the client refuses
Refused(op, k) == [op |-> op, merge_type |-> None, key |-> k, accepted |-> FALSE]

\* lines 357-358, perform_action and exit_json: delete, create, replace or patch.
\* current is the record stored when the write arrives; it differs from existing
\* only when another invocation wrote since the lookup of perform_action.
Apply(p) ==
    /\ pc[p] = "apply"
    /\ LET body == local[p].event[1]
           k == WriteKey(body)
           existing == local[p].existing
           current == Get(store, k)
           stale == Conditioned(body) /\ current # existing
           state == Param(task[p], "state", "present")
           force == Param(task[p], "force", FALSE)
           patches == PatchCalls(MergeTypes(task[p]), rejects[p], k)
       IN CASE state = "absent" /\ existing = <<>> ->
                 /\ outcome' = [outcome EXCEPT ![p] = exit_json(<<>>)]
                 /\ UNCHANGED <<store, calls>>
            [] state = "absent" /\ existing # <<>> ->
                 \* NotFound on delete: already absent
                 /\ store' = Remove(store, k)
                 /\ calls' = [calls EXCEPT ![p] = <<Call("delete", k)>>]
                 /\ outcome' = [outcome EXCEPT ![p] = exit_json(<<>>)]
            [] state # "absent" /\ existing = <<>> /\ current = <<>> ->
                 /\ store' = Put(store, k, body)
                 /\ calls' = [calls EXCEPT ![p] = <<Call("create", k)>>]
                 /\ outcome' = [outcome EXCEPT ![p] = exit_json(<<body>>)]
            [] state # "absent" /\ existing = <<>> /\ current # <<>> ->
                 \* the record was created meanwhile: the create is a Conflict
                 /\ store' = store
                 /\ calls' = [calls EXCEPT ![p] = <<Refused("create", k)>>]
                 /\ outcome' = [outcome EXCEPT ![p] = main("Conflict")]
            [] state # "absent" /\ existing # <<>> /\ current # <<>> /\ stale ->
                 /\ store' = store
                 /\ calls' = [calls EXCEPT ![p] =
                        <<Refused(IF force THEN "replace" ELSE "patch", k)>>]
                 /\ outcome' = [outcome EXCEPT ![p] = main("Conflict")]
            [] state # "absent" /\ existing # <<>> /\ current = <<>> /\ force ->
                 /\ store' = store
                 /\ calls' = [calls EXCEPT ![p] = <<Refused("replace", k)>>]
                 /\ outcome' = [outcome EXCEPT ![p] = main("NotFoundError")]
            [] state # "absent" /\ existing # <<>> /\ current = <<>> /\ ~force ->
                 \* NotFound on the patch target: create instead
                 /\ store' = Put(store, k, body)
                 /\ calls' = [calls EXCEPT ![p] = <<Call("create", k)>>]
                 /\ outcome' = [outcome EXCEPT ![p] = exit_json(<<body>>)]
            [] state # "absent" /\ existing # <<>> /\ current # <<>> /\ ~stale /\ force ->
                 /\ store' = Put(store, k, body)
                 /\ calls' = [calls EXCEPT ![p] = <<Call("replace", k)>>]
                 /\ outcome' = [outcome EXCEPT ![p] = exit_json(<<body>>)]
            [] state # "absent" /\ existing # <<>> /\ current # <<>> /\ ~stale /\ ~force ->
                 /\ calls' = [calls EXCEPT ![p] = patches]
                 /\ IF patches[Len(patches)].accepted
                      THEN /\ store' = Put(store, k, body)
                           /\ outcome' = [outcome EXCEPT ![p] = exit_json(<<body>>)]
                      ELSE /\ store' = store
                           /\ outcome' = [outcome EXCEPT ![p] =
                                  main("MergeStrategyExhausted")]
    /\ pc' = [pc EXCEPT ![p] = "done"]
    /\ UNCHANGED <<clock, task, rejects, local, begun>>

\* the module process ends; the next invocation starts from a fresh process
Exit(p) ==
    /\ pc[p] = "done"
    /\ pc' = [pc EXCEPT ![p] = "idle"]
    /\ task' = [task EXCEPT ![p] = NoTask]
    /\ rejects' = [rejects EXCEPT ![p] = {}]
    /\ local' = [local EXCEPT ![p] = InitLocal]
    /\ calls' = [calls EXCEPT ![p] = <<>>]
    /\ outcome' = [outcome EXCEPT ![p] = NoOutcome]
    /\ begun' = [begun EXCEPT ![p] = <<>>]
    /\ UNCHANGED <<store, clock>>

\* time passes
Tick ==
    /\ clock < MaxClock
    /\ clock' = clock + 1
    /\ UNCHANGED <<store, pc, task, rejects, local, calls, outcome, begun>>

----------------------------------------------------------------------------
(* Specification: invocations one after the other *)

Init ==
    /\ store \in InitialStores
    /\ clock = TicksPerSecond
    /\ pc = [p \in SeqProcs |-> "idle"]
    /\ task = [p \in SeqProcs |-> NoTask]
    /\ rejects = [p \in SeqProcs |-> {}]
    /\ local = [p \in SeqProcs |-> InitLocal]
    /\ calls = [p \in SeqProcs |-> <<>>]
    /\ outcome = [p \in SeqProcs |-> NoOutcome]
    /\ begun = [p \in SeqProcs |-> <<>>]

Next ==
    \/ \E p \in DOMAIN pc : Begin(p)
    \/ \E p \in DOMAIN pc : Get1(p)
    \/ \E p \in DOMAIN pc : Get2(p)
    \/ \E p \in DOMAIN pc : Get3(p)
    \/ \E p \in DOMAIN pc : GetRaises(p)
    \/ \E p \in DOMAIN pc : Build(p)
    \/ \E p \in DOMAIN pc : Existing(p)
    \/ \E p \in DOMAIN pc : ExistingRaises(p)
    \/ \E p \in DOMAIN pc : Apply(p)
    \/ \E p \in DOMAIN pc : Exit(p)
    \/ Tick

Spec == Init /\ [][Next]_vars

----------------------------------------------------------------------------
(* Specification: two invocations at the same time, each run once.  The     *)
(* race is short: the clock does not advance while it lasts.                *)

ConcProcs == {1, 2}

\* the tasks of the racing invocations: required arguments only
ConcTasks == { t \in CoreTasks : t.involvedObject = InvolvedObjectInput }

ConcInit ==
    /\ store \in InitialStores
    /\ clock = TicksPerSecond
    /\ pc = [p \in ConcProcs |-> "idle"]
    /\ task = [p \in ConcProcs |-> NoTask]
    /\ rejects = [p \in ConcProcs |-> {}]
    /\ local = [p \in ConcProcs |-> InitLocal]
    /\ calls = [p \in ConcProcs |-> <<>>]
    /\ outcome = [p \in ConcProcs |-> NoOutcome]
    /\ begun = [p \in ConcProcs |-> <<>>]

ConcBegin(p) == BeginWith(p, ConcTasks, {{}})

ConcNext ==
    \/ \E p \in DOMAIN pc : ConcBegin(p)
    \/ \E p \in DOMAIN pc : Get1(p)
    \/ \E p \in DOMAIN pc : Get2(p)
    \/ \E p \in DOMAIN pc : Get3(p)
    \/ \E p \in DOMAIN pc : Build(p)
    \/ \E p \in DOMAIN pc : Existing(p)
    \/ \E p \in DOMAIN pc : Apply(p)

ConcSpec == ConcInit /\ [][ConcNext]_vars

----------------------------------------------------------------------------
(* Vocabulary of the properties *)

\* the invocation has ended and reported
Done(p) == pc[p] = "done"

\* the caller's arguments are all declared by the module
Accepted(p) == (DOMAIN task[p]) \subseteq ArgSpecKeys

\* the caller's EventKey
EventKey(p) == <<task[p].name, task[p].namespace>>

\* the record stored under the caller's EventKey when the invocation started
Prior(p) == Get(begun[p], EventKey(p))

\* every lookup the invocation made was answered, with a record or NotFound
Answered(p) == local[p].lookupError = None

\* a reconciliation with state=present / state=absent that has ended, its
\* lookups answered
EndedPresent(p) == Done(p) /\ Answered(p) /\ task[p].state = "present"
EndedAbsent(p) == Done(p) /\ Answered(p) /\ task[p].state = "absent"

\* the write calls the client accepted
Writes(p) ==
    { i \in 1..Len(calls[p]) :
        calls[p][i].accepted /\ calls[p][i].op \in {"create", "patch", "replace"} }

\* the record the invocation applied, when it applied one
HasApplied(p) == Writes(p) # {}
AppliedRecord(p) == local[p].event[1]

\* the time of the reconciliation, as the timestamps record it
Now(p) == format_rfc3339(local[p].now)

\* the strategies the caller asked for, the default when none is given
Wanted(p) == Arg(task[p], "merge_type", <<"strategic-merge", "merge">>)

\* the caller's force, the default when none is given
Forced(p) == Arg(task[p], "force", FALSE)

\* the ops of the calls issued, in order
Ops(p) == [i \in 1..Len(calls[p]) |-> calls[p][i].op]

----------------------------------------------------------------------------
(* C1: a state=present reconciliation of an EventKey with no stored record  *)
(* succeeds and applies a record with count = 1 and firstTimestamp =        *)
(* lastTimestamp = the time of the reconciliation.                          *)
C1_NoPriorCreatesFresh ==
    \A p \in DOMAIN pc :
        (EndedPresent(p) /\ Accepted(p) /\ Prior(p) = <<>>) =>
            /\ outcome[p].status = "success"
            /\ HasApplied(p)
            /\ AppliedRecord(p).count = 1
            /\ AppliedRecord(p).firstTimestamp = Now(p)
            /\ AppliedRecord(p).lastTimestamp = Now(p)

(* C2: when a stored record exists and its reason equals the desired        *)
(* reason, the applied record has count = prior.count + 1 and               *)
(* firstTimestamp = prior.firstTimestamp.                                   *)
C2_SameReasonIncrements ==
    \A p \in DOMAIN pc :
        (EndedPresent(p) /\ HasApplied(p) /\ Prior(p) # <<>>
           /\ Prior(p)[1].reason = task[p].reason) =>
            /\ AppliedRecord(p).count = Prior(p)[1].count + 1
            /\ AppliedRecord(p).firstTimestamp = Prior(p)[1].firstTimestamp

C2_Witness ==
    \E p \in DOMAIN pc :
        /\ EndedPresent(p) /\ HasApplied(p) /\ Prior(p) # <<>>
        /\ Prior(p)[1].reason = task[p].reason
        /\ Prior(p)[1].count = 2
        /\ AppliedRecord(p).count = 3

(* C3: when a stored record exists and its reason differs from the desired  *)
(* reason, the applied record has count = 1 and firstTimestamp = the time   *)
(* of the reconciliation.                                                   *)
C3_ChangedReasonResets ==
    \A p \in DOMAIN pc :
        (EndedPresent(p) /\ HasApplied(p) /\ Prior(p) # <<>>
           /\ Prior(p)[1].reason # task[p].reason) =>
            /\ AppliedRecord(p).count = 1
            /\ AppliedRecord(p).firstTimestamp = Now(p)

(* C4: every record applied with state=present has lastTimestamp = the time *)
(* of the reconciliation.                                                   *)
C4_LastTimestampIsNow ==
    \A p \in DOMAIN pc :
        (EndedPresent(p) /\ HasApplied(p)) =>
            AppliedRecord(p).lastTimestamp = Now(p)

(* C5: after every successful state=present reconciliation the count stored *)
(* under the EventKey is one more than before when the reason is unchanged, *)
(* and 1 when the reason changed or the record is new.                      *)
C5_StoredCountFollowsReason ==
    \A p \in DOMAIN pc :
        (EndedPresent(p) /\ outcome[p].status = "success") =>
            /\ EventKey(p) \in DOMAIN store
            /\ store[EventKey(p)].count =
                 IF Prior(p) # <<>> /\ Prior(p)[1].reason = task[p].reason
                   THEN Prior(p)[1].count + 1
                   ELSE 1

(* C6: a state=absent reconciliation of an EventKey with no stored record   *)
(* ends in success and leaves the store unchanged.                          *)
C6_AbsentOnAbsentSucceeds ==
    \A p \in DOMAIN pc :
        (EndedAbsent(p) /\ Accepted(p) /\ Prior(p) = <<>>) =>
            /\ outcome[p].status = "success"
            /\ store = begun[p]

(* C7: a state=absent reconciliation of an existing EventKey, in any        *)
(* namespace, returns an empty result and a lookup of the key afterwards    *)
(* yields NotFound.                                                         *)
C7_AbsentDeletes ==
    \A p \in DOMAIN pc :
        (EndedAbsent(p) /\ Accepted(p) /\ Prior(p) # <<>>) =>
            /\ outcome[p].status = "success"
            /\ outcome[p].result = <<>>
            /\ Get(store, EventKey(p)) = <<>>

(* C8: for state=present the write issued is decided by the prior record    *)
(* and force: no prior record, exactly one create; a prior record and       *)
(* force=true, exactly one replace; a prior record and force=false, patch   *)
(* calls only.                                                              *)
C8_WriteOperationChosen ==
    \A p \in DOMAIN pc :
        EndedPresent(p) =>
            /\ Prior(p) = <<>> => Ops(p) = <<"create">>
            /\ (Prior(p) # <<>> /\ Forced(p)) => Ops(p) = <<"replace">>
            /\ (Prior(p) # <<>> /\ ~Forced(p)) =>
                   /\ calls[p] # <<>>
                   /\ \A i \in 1..Len(calls[p]) : calls[p][i].op = "patch"

\* the record to patch exists under the caller's key and under the written key
Patchable(p) ==
    /\ EndedPresent(p) /\ ~("force" \in DOMAIN task[p])
    /\ Prior(p) # <<>>
    /\ <<task[p].name, "default">> \in DOMAIN begun[p]

(* C9: the merge strategies are tried in the caller's order (default        *)
(* strategic-merge, merge), one patch call per strategy, up to the first    *)
(* the client accepts; when it rejects the first and accepts the second,    *)
(* the first is called once, the second once, and the reconciliation        *)
(* succeeds.                                                                *)
C9_StrategiesInOrder ==
    \A p \in DOMAIN pc :
        Patchable(p) =>
            /\ \A i \in 1..Len(calls[p]) :
                 /\ i <= Len(Wanted(p))
                 /\ calls[p][i].op = "patch"
                 /\ calls[p][i].merge_type = Wanted(p)[i]
                 /\ calls[p][i].accepted = (Wanted(p)[i] \notin rejects[p])
                 /\ calls[p][i].accepted => i = Len(calls[p])
            /\ (Len(Wanted(p)) = 2 /\ Wanted(p)[1] \in rejects[p]
                  /\ Wanted(p)[2] \notin rejects[p]) =>
                 /\ Len(calls[p]) = 2
                 /\ outcome[p].status = "success"

C9_Witness ==
    \E p \in DOMAIN pc :
        /\ Patchable(p)
        /\ Wanted(p) = <<"strategic-merge", "merge">>
        /\ rejects[p] = {"strategic-merge"}
        /\ Len(calls[p]) = 2
        /\ calls[p][1].merge_type = "strategic-merge" /\ ~calls[p][1].accepted
        /\ calls[p][2].merge_type = "merge" /\ calls[p][2].accepted
        /\ outcome[p].status = "success"

(* C10: when the client rejects every supplied merge strategy the           *)
(* reconciliation ends in the fatal MergeStrategyExhausted error, reports   *)
(* no success, and the store is what it was before the reconciliation.      *)
C10_ExhaustionFails ==
    \A p \in DOMAIN pc :
        (Patchable(p) /\ \A i \in 1..Len(Wanted(p)) : Wanted(p)[i] \in rejects[p]) =>
            /\ outcome[p].status = "failed"
            /\ outcome[p].error = "MergeStrategyExhausted"
            /\ outcome[p].result = <<>>
            /\ store = begun[p]

C10_Witness ==
    \E p \in DOMAIN pc :
        /\ Patchable(p)
        /\ \A i \in 1..Len(Wanted(p)) : Wanted(p)[i] \in rejects[p]
        /\ Len(calls[p]) = Len(Wanted(p))
        /\ outcome[p].error = "MergeStrategyExhausted"

(* C13: the applied record's involvedObject uid and resourceVersion are the  *)
(* caller's when the caller supplies them, else those of the stored Event   *)
(* when one exists, else the sentinel "1".                                  *)
C13_IdentitySource ==
    \A p \in DOMAIN pc :
        (EndedPresent(p) /\ HasApplied(p)) =>
            LET given == task[p].involvedObject
                applied == AppliedRecord(p).involvedObject
            IN IF "uid" \in DOMAIN given
                 THEN /\ applied.uid = given.uid
                      /\ applied.resourceVersion = given.resourceVersion
                 ELSE IF Prior(p) # <<>>
                 THEN /\ applied.uid = Prior(p)[1].involvedObject.uid
                      /\ applied.resourceVersion =
                             Prior(p)[1].involvedObject.resourceVersion
                 ELSE /\ applied.uid = "1"
                      /\ applied.resourceVersion = "1"

(* C14: every create, patch, replace or delete call of a reconciliation     *)
(* targets the EventKey (name, namespace) of the caller, the key of the     *)
(* lookup.                                                                  *)
C14_WriteTargetsLookupKey ==
    \A p \in DOMAIN pc :
        Done(p) =>
            \A i \in 1..Len(calls[p]) :
                /\ calls[p][i].key = EventKey(p)
                /\ calls[p][i].key = LookupKey(task[p])

(* C15: the applied record's involvedObject apiVersion, kind, name and      *)
(* namespace are those the caller gave for the involved object.             *)
C15_InvolvedObjectAsGiven ==
    \A p \in DOMAIN pc :
        (EndedPresent(p) /\ HasApplied(p)) =>
            LET given == task[p].involvedObject
                applied == AppliedRecord(p).involvedObject
            IN /\ applied.apiVersion = given.apiVersion
               /\ applied.kind = given.kind
               /\ applied.name = given.name
               /\ applied.namespace = given.namespace

(* C16: when a lookup of the prior record fails with an error other than    *)
(* NotFound the reconciliation ends in a reported failure and issues no     *)
(* create, patch, replace or delete call.                                   *)
C16_LookupErrorIsFatal ==
    \A p \in DOMAIN pc :
        local[p].lookupError # None =>
            /\ pc[p] = "done"
            /\ outcome[p].status = "failed"
            /\ outcome[p].error = local[p].lookupError
            /\ calls[p] = <<>>
            /\ store = begun[p]

C16_Witness ==
    \E p \in DOMAIN pc :
        /\ local[p].lookupError = "Timeout"
        /\ local[p].prior # <<>>
        /\ local[p].total3 = <<>>
        /\ pc[p] = "done"
        /\ outcome[p].status = "failed"

----------------------------------------------------------------------------
(* Properties of invocations that run at the same time *)

\* all calls of the invocation went to the caller's EventKey
OnEventKey(p) == \A i \in 1..Len(calls[p]) : calls[p][i].key = EventKey(p)

(* C11: when two reconciliations with the same reason run at the same time  *)
(* on one existing EventKey and both report success, the stored count       *)
(* reflects both: a write based on a stale lookup surfaces as Conflict and  *)
(* is never applied silently.                                               *)
C11_NoLostUpdate ==
    \A p, q \in DOMAIN pc :
        (/\ p # q
         /\ EndedPresent(p) /\ EndedPresent(q)
         /\ EventKey(p) = EventKey(q)
         /\ task[p].reason = task[q].reason
         /\ Prior(p) # <<>> /\ Prior(p) = Prior(q)
         /\ Prior(p)[1].reason = task[p].reason
         /\ OnEventKey(p) /\ OnEventKey(q)
         /\ outcome[p].status = "success" /\ outcome[q].status = "success") =>
            /\ EventKey(p) \in DOMAIN store
            /\ store[EventKey(p)].count = Prior(p)[1].count + 2

(* C12: an apply that fails with Conflict is retried with freshly fetched   *)
(* state; a fatal Conflict is reported only after three attempts of the     *)
(* lookup, derive, apply sequence.                                          *)
C12_ConflictRetried ==
    \A p \in DOMAIN pc :
        (Done(p) /\ outcome[p].error = "Conflict") => local[p].attempts = 3

\* what the derivation yields from one observation o of the stored record
DerivedFrom(p, o) ==
    /\ AppliedRecord(p).count = DeriveCount(o, task[p].reason)
    /\ AppliedRecord(p).involvedObject.uid =
           IF o # <<>> THEN o[1].involvedObject.uid ELSE "1"
    /\ AppliedRecord(p).involvedObject.resourceVersion =
           IF o # <<>> THEN o[1].involvedObject.resourceVersion ELSE "1"
    /\ o # <<>> => AppliedRecord(p).firstTimestamp = o[1].firstTimestamp

(* C17: the count, the involvedObject identity and the firstTimestamp of    *)
(* the applied record all derive from one observation of the stored record, *)
(* also when another invocation writes between the lookups.                 *)
C17_OneObservation ==
    \A p \in DOMAIN pc :
        (EndedPresent(p) /\ HasApplied(p)) =>
            \E o \in {local[p].prior, local[p].total2, local[p].total3} :
                DerivedFrom(p, o)

====
